---- MODULE Spec2Model ----
(***************************************************************************)
(* A model of modman (src/modman/main.py, src/modman/lib.py): the install, *)
(* update and uninstall commands working on the manifest (.modman.json),   *)
(* and of ModrinthAPI: the version selection of get_versions, the rate     *)
(* limit gate and the retries of get, and the cache and hash check of      *)
(* download_mod.                                                           *)
(*                                                                         *)
(* The remote catalog is a fixed, small set of projects and versions; the  *)
(* commands, their arguments, the loaded manifest and the configured game  *)
(* version are chosen freely.  Spec is the commands against a catalog that *)
(* answers every lookup; FaultSpec is install against a catalog with a     *)
(* failing lookup or a damaged file and a user who may interrupt, KillSpec *)
(* the commands with a process that may be killed, BelowSpec the commands  *)
(* run from the manifest's directory or from one below it, UpdateSpec      *)
(* update against any bulk answer, ThreadSpec update with its download     *)
(* threads, GetSpec the calls of get on one client and DownloadSpec two    *)
(* threads running download_mod.                                           *)
(***************************************************************************)
EXTENDS Integers, Sequences, FiniteSets, TLC

VARIABLES
    server,          \* config["modman"]["server"]: [type, version]
    disk,            \* the mods mapping of .modman.json on disk
    loaded,          \* the mods mapping as load_config read it for this command
    config,          \* config["mods"] in memory: slug -> [project, version]
    placed,          \* file names present in <root>/mods
    cmd,             \* the command being run and its arguments
    pc,              \* position of the command
    i,               \* loop index of the command
    collected_mods,  \* install: the seeds
    queue,           \* install: the installation queue
    conflicts,       \* install: every conflict find_dependency_version_conflicts returned
    candidates,      \* get_versions: the list the catalog answered with
    result,          \* get_versions: the returned list
    failing,         \* catalog: the project and version ids whose lookup answers an error status
    corrupt,         \* file names whose bytes do not hash to the declared sha512
    error,           \* the exception that ended the command, with the line it left from
    torn,            \* .modman.json has been opened for writing and not yet written
    http,            \* ModrinthAPI.get: the call in progress
    cache,           \* download_mod: the cache directory, file name -> content
    copied,          \* download_mod: the destination directory, file name -> content
    worker,          \* the download threads: each one's position and what it works on
    changes,         \* update: slug -> the version it will be replaced by
    new_version,     \* update: the local variable the download threads' lambda reads
    ratelimit,       \* ModrinthAPI: ratelimit_remaining and ratelimit_reset
    now,             \* time.time(), in seconds
    cwd,             \* the working directory the command is run from
    stray,           \* the file .modman.json of a working directory below the manifest's
    findings         \* install: the incompatibilities printed

vars == <<server, disk, loaded, config, placed, cmd, pc, i, collected_mods, queue,
          conflicts, candidates, result, failing, corrupt, error, torn, http,
          cache, copied, worker, changes, new_version, ratelimit, now, cwd, stray,
          findings>>

\* The state of the catalog and of the served files does not change during a run.
faults == <<failing, corrupt>>

\* The rate limit state of the client and the clock.
client == <<ratelimit, now>>

\* What the other commands and calls work on.
apart == <<torn, http, cache, copied, worker, changes, new_version, client>>

\* Where the command runs.
place == <<cwd, stray>>

-----------------------------------------------------------------------------
(* Bounds *)

MaxRequests == 2     \* number of arguments of one command
MaxCandidates == 3   \* length of a catalog answer given to get_versions
MaxDate == 2         \* publish timestamps are 1..MaxDate
MaxCalls == 3        \* nested calls of get that one call of get may make
MaxTime == 2         \* the clock runs from 0 to MaxTime

-----------------------------------------------------------------------------
(* The catalog *)

None == "None"

ProjectIds == {"A", "B", "C"}

\* A project's slug; project C never got a slug of its own and is addressed
\* by its id (get_project takes either).
Slug(pid) == CASE pid = "A" -> "a" [] pid = "B" -> "b" [] OTHER -> pid

Title(pid) == CASE pid = "A" -> "Mod A" [] pid = "B" -> "Mod B" [] OTHER -> "Mod C"

Slugs == {Slug(p) : p \in ProjectIds}

Dep(p, v, t) == [project_id |-> p, version_id |-> v, dependency_type |-> t]

Ver(id, p, t, tier, loaders, gvs, deps) ==
    [id |-> id, project_id |-> p, date_published |-> t, version_type |-> tier,
     loaders |-> loaders, game_versions |-> gvs, dependencies |-> deps]

Loaders == {"fabric", "forge"}
GameVersions == {"1.19", "1.20"}
Tiers == {"release", "beta", "alpha"}

\* The versions the catalog holds, by version id.
Version ==
    [v \in {"a1", "a2", "b1", "b2", "c1", "c2"} |->
       CASE v = "a1" -> Ver("a1", "A", 1, "release", {"fabric"}, {"1.20"},
                            <<Dep("B", None, "required")>>)
         [] v = "a2" -> Ver("a2", "A", 2, "release", {"fabric"}, {"1.19"},
                            <<Dep("C", "c1", "required"), Dep("B", None, "optional")>>)
         [] v = "b1" -> Ver("b1", "B", 1, "release", {"fabric"}, {"1.20"},
                            <<Dep("A", None, "required"), Dep("C", "c2", "required")>>)
         [] v = "b2" -> Ver("b2", "B", 2, "beta", {"fabric"}, {"1.20"},
                            <<Dep("A", None, "incompatible")>>)
         [] v = "c1" -> Ver("c1", "C", 1, "release", {"fabric"}, {"1.19", "1.20"},
                            <<Dep("B", None, "incompatible")>>)
         [] OTHER    -> Ver("c2", "C", 2, "beta", {"forge"}, {"1.20"}, <<>>)]

VersionIds == DOMAIN Version

VersionsOf(pid) == {v \in VersionIds : Version[v].project_id = pid}

\* GET /project/{id}/version: the version records of a project, oldest first.
ProjectVersionList(pid) ==
    CASE pid = "A" -> <<Version["a1"], Version["a2"]>>
      [] pid = "B" -> <<Version["b1"], Version["b2"]>>
      [] OTHER     -> <<Version["c1"], Version["c2"]>>

\* The primary file of a version.
FileName(v) == CASE v = "a1" -> "a1.jar" [] v = "a2" -> "a2.jar" [] v = "a3" -> "a3.jar"
                 [] v = "b1" -> "b1.jar" [] v = "b2" -> "b2.jar" [] v = "b3" -> "b3.jar"
                 [] v = "c1" -> "c1.jar" [] v = "c3" -> "c3.jar" [] OTHER -> "c2.jar"

-----------------------------------------------------------------------------
(* ModrinthAPI *)

\* get_project: the project a slug or id names.
get_project(ref) == CHOOSE p \in ProjectIds : p = ref \/ Slug(p) = ref

\* A name the catalog has a project for, by id or by slug.
Known(ref) == ref \in ProjectIds \cup Slugs

\* lib.py 276-342, 358-375: the hits of a search for a name; the catalog finds
\* a project by its title.  With no hit interactive_search returns None, with
\* one hit it returns the hit.
search(query) == {p \in ProjectIds : Title(p) = query}

\* main.py 357-370: the project a request ends up with, looked up directly or,
\* after a 404, through the search.
Found(ref) == IF Known(ref) THEN get_project(ref) ELSE CHOOSE p \in search(ref) : TRUE

\* An exception that no handler catches, and the line of install_mod it leaves
\* from.
NoError == [type |-> "None", line |-> 0]
Raised(type, line) == [type |-> type, line |-> line]

\* list.sort(key=date_published, reverse=True): stable, newest first.
InsertByDate(x, s) ==
    LET k == Cardinality({m \in 1..Len(s) : s[m].date_published >= x.date_published})
    IN  SubSeq(s, 1, k) \o <<x>> \o SubSeq(s, k + 1, Len(s))

RECURSIVE SortNewestFirst(_)
SortNewestFirst(s) ==
    IF s = <<>> THEN <<>>
    ELSE InsertByDate(s[Len(s)], SortNewestFirst(SubSeq(s, 1, Len(s) - 1)))

\* list.remove(x): drops the first element equal to x.
RemoveFirst(s, x) ==
    LET k == CHOOSE n \in 1..Len(s) : s[n] = x /\ \A m \in 1..(n - 1) : s[m] # x
    IN  SubSeq(s, 1, k - 1) \o SubSeq(s, k + 1, Len(s))

\* for version in copy: if version in bad: target.remove(version)
RECURSIVE RemoveEach(_, _, _)
RemoveEach(copy, target, bad) ==
    IF copy = <<>> THEN target
    ELSE RemoveEach(Tail(copy),
                    IF Head(copy) \in bad THEN RemoveFirst(target, Head(copy)) ELSE target,
                    bad)

Elems(s) == {s[n] : n \in 1..Len(s)}

\* A variant of ReleaseOnly without the branch of lines 144-147.
ReleaseOnlyNoFallback(res) ==
    RemoveEach(res, res, {v \in Elems(res) : v.version_type # "release"})

\* lib.py 138-147: the release_only stage: the releases, or everything when
\* there is no release.
ReleaseOnly(res) ==
    LET real_copy == RemoveEach(res, res, {v \in Elems(res) : v.version_type # "release"})
    IN  IF real_copy # <<>> THEN real_copy ELSE res

\* get_versions(project_id, loader, game_version, release_only) applied to the
\* list the catalog answered with. None stands for an argument not given.
get_versions(answer, loader, game_version, release_only) ==
    LET sorted == SortNewestFirst(answer)
        byGame == IF game_version # None
                  THEN RemoveEach(sorted, sorted,
                         {v \in Elems(sorted) : game_version \notin v.game_versions})
                  ELSE sorted
        byLoader == IF loader # None
                    THEN RemoveEach(byGame, byGame,
                           {v \in Elems(byGame) : loader \notin v.loaders})
                    ELSE byGame
        byTier == IF release_only THEN ReleaseOnly(byLoader) ELSE byLoader
    IN  SortNewestFirst(byTier)

\* get_version(project_id, version_id) with a version id given.
get_version(pid, vid) == Version[vid]

\* find_dependency_version_conflicts(project_id, version_id, config)
ConflictAt(project_id, version_id, mods, s, n) ==
    LET version_info == Version[mods[s].version]
        dependency == version_info.dependencies[n]
    IN  /\ version_info.project_id = project_id
        /\ dependency.project_id = project_id
        /\ dependency.version_id # None
        /\ dependency.version_id # version_id

find_dependency_version_conflicts(project_id, version_id, mods) ==
    UNION {{[project_id |-> project_id,
             conflict_project_id |-> mods[s].project,
             version_id |-> version_id,
             conflict_version_id |-> Version[mods[s].version].dependencies[n].version_id] :
               n \in {m \in DOMAIN Version[mods[s].version].dependencies :
                        ConflictAt(project_id, version_id, mods, s, m)}} :
           s \in DOMAIN mods}

-----------------------------------------------------------------------------
(* The manifest *)

Entry(v) == [project |-> Version[v].project_id, version |-> v]

\* The manifests a run can load: any set of projects, each at one of its versions.
Manifests ==
    UNION {{[s \in {Slug(p) : p \in S} |-> Entry(f[CHOOSE p \in S : Slug(p) = s])] :
              f \in {g \in [S -> VersionIds] : \A p \in S : Version[g[p]].project_id = p}} :
           S \in SUBSET ProjectIds}

\* The directory of the manifest, and one below it.
Root == "root"
Below == "root/mods"

\* main.py 73-88: load_config reads the first .modman.json it finds going up
\* from the working directory.
load_config == IF cwd # Root /\ stray # <<>> THEN stray[1] ELSE disk

\* main.py 491-492, 642-643, 715-716: open(".modman.json", "w") names the file
\* of the working directory.
WriteManifest(content) ==
    IF cwd = Root
    THEN disk' = content /\ UNCHANGED stray
    ELSE stray' = <<content>> /\ UNCHANGED disk

\* dict item assignment and deletion
Put(mods, s, e) == [k \in DOMAIN mods \cup {s} |-> IF k = s THEN e ELSE mods[k]]
Del(mods, s) == [k \in DOMAIN mods \ {s} |-> mods[k]]

FilesOf(mods) == {FileName(mods[s].version) : s \in DOMAIN mods}

\* Sequences without repetition that list exactly the elements of S.
Orderings(S) ==
    {q \in [1..Cardinality(S) -> S] : \A a, b \in DOMAIN q : a # b => q[a] # q[b]}

-----------------------------------------------------------------------------
(* install *)

Latest == "latest"

Item(pid, vid) == [mod |-> pid, version |-> vid]

\* A request is one command-line argument, "ref" or "ref==version".
Request(ref, version) == [ref |-> ref, version |-> version]

Requests ==
    {Request(p, Latest) : p \in ProjectIds}
      \cup {Request(Version[v].project_id, v) : v \in VersionIds}

SeqsUpTo(S, n) == UNION {[1..m -> S] : m \in 0..n}

\* The platform descriptors a manifest may carry.
Servers == {[type |-> "fabric", version |-> gv] : gv \in GameVersions}

\* main.py 382-386, 440-444: api.get_versions(id, loader=server type,
\* game_version=server version) for each project and platform.
LatestVersions ==
    [p \in ProjectIds, srv \in Servers |->
       get_versions(ProjectVersionList(p), srv.type, srv.version, TRUE)]

\* A variant of SeedDropped with the `continue` of line 408 in force.
SeedDropsBoth(version_info, srv) ==
    \/ srv.version \notin version_info.game_versions
    \/ srv.type \notin version_info.loaders

\* main.py 401-411: the platform checks on a seed's version. A game version
\* that is not supported is only warned about; a loader that is not supported
\* drops the seed.
SeedDropped(version_info, srv) == srv.type \notin version_info.loaders

\* main.py 372-376: an installed project is skipped unless --reinstall.
SkipInstalled(installed, reinstall) == installed /\ reinstall = FALSE

\* main.py 357-370, 399: the lookups of one iteration of the seed loop, and the
\* exception they end in.  A name the catalog does not know answers 404 and is
\* searched for: without a hit, mod_info["slug"] subscripts None.  Any other
\* error status is raised again, and so is one of get_version.
SeedError(req, mods, reinstall) ==
    LET Requested(mod_info) ==
            IF SkipInstalled(Slug(mod_info) \in DOMAIN mods, reinstall) THEN NoError
            ELSE LET version == IF Slug(mod_info) \in DOMAIN mods
                                THEN mods[Slug(mod_info)].version ELSE req.version
                 IN  IF version # Latest /\ version \in failing
                     THEN Raised("HTTPStatusError", 399)
                     ELSE NoError
    IN  IF Known(req.ref)
        THEN IF get_project(req.ref) \in failing
             THEN Raised("HTTPStatusError", 370)
             ELSE Requested(get_project(req.ref))
        ELSE IF search(req.ref) = {}
             THEN Raised("TypeError", 366)
             ELSE IF Found(req.ref) \in failing
                  THEN Raised("HTTPStatusError", 366)
                  ELSE Requested(Found(req.ref))

\* main.py 352-413: one iteration of the seed loop; what it appends to
\* collected_mods.
SeedItem(req, mods, srv, reinstall) ==
    LET mod_info == Found(req.ref)
        installed == Slug(mod_info) \in DOMAIN mods
        version == IF installed THEN mods[Slug(mod_info)].version ELSE req.version
        versions == LatestVersions[mod_info, srv]
        Checked(version_info) ==
            IF SeedDropped(version_info, srv) THEN <<>>
            ELSE <<Item(mod_info, version_info.id)>>
    IN  IF SkipInstalled(installed, reinstall) THEN <<>>
        ELSE IF version = Latest
             THEN IF versions = <<>> THEN <<>> ELSE Checked(versions[1])
             ELSE Checked(get_version(mod_info, version))

\* A variant of DepSkipped with the comparison of line 422 inverted.
DepSkippedUnlessOptional(dependency_info, optional) ==
    dependency_info.dependency_type # "optional" /\ ~optional

\* main.py 422-429: the dependencies the expansion passes over.
DepSkipped(dependency_info, optional) ==
    dependency_info.dependency_type = "optional" /\ ~optional

\* main.py 421-468: one iteration of the inner loop; what it appends to queue.
DepItem(dependency_info, srv, optional) ==
    LET dependency == get_project(dependency_info.project_id)
        versions == LatestVersions[dependency_info.project_id, srv]
    IN  IF DepSkipped(dependency_info, optional) THEN <<>>
        ELSE IF dependency_info.version_id = None
             THEN IF versions = <<>> THEN <<>>
                  ELSE <<Item(dependency, versions[1].id)>>
             ELSE <<Item(dependency,
                         get_version(dependency_info.project_id,
                                     dependency_info.version_id).id)>>

\* main.py 437, 459: the lookups of one iteration of the inner loop, and the
\* exception they end in.
DepError(dependency_info, optional) ==
    IF DepSkipped(dependency_info, optional) THEN NoError
    ELSE IF dependency_info.project_id \in failing
         THEN Raised("HTTPStatusError", 437)
         ELSE IF dependency_info.version_id # None /\ dependency_info.version_id \in failing
              THEN Raised("HTTPStatusError", 459)
              ELSE NoError

RECURSIVE DepItems(_, _, _)
DepItems(deps, srv, optional) ==
    IF deps = <<>> THEN <<>>
    ELSE DepItem(Head(deps), srv, optional) \o DepItems(Tail(deps), srv, optional)

\* main.py 464: the conflict check runs for every dependency that is enqueued,
\* with the id of the mod and of the version being expanded.
ConflictsOf(item, deps, mods, srv, optional) ==
    IF DepItems(deps, srv, optional) = <<>> THEN {}
    ELSE find_dependency_version_conflicts(item.mod, item.version, mods)

\* The index of the first element of a list that is in a set of indices.
First(bad) == CHOOSE n \in bad : \A m \in bad : n <= m

\* main.py 481-489: the installation loop's effect on config["mods"].
RECURSIVE InstallQueue(_, _)
InstallQueue(q, mods) ==
    IF q = <<>> THEN mods
    ELSE InstallQueue(Tail(q), Put(mods, Slug(Head(q).mod), Entry(Head(q).version)))

NoCmd == [name |-> "none", mods |-> <<>>, optional |-> FALSE, reinstall |-> FALSE,
          dry |-> FALSE, purge |-> FALSE]

\* main.py 342-351: install is started; load_config reads the manifest. Without
\* arguments the installed mods are the requests.
InstallStart(mods, optional, reinstall, dry) ==
    /\ pc = "idle"
    /\ config' = load_config
    /\ loaded' = load_config
    /\ \E keys \in Orderings(DOMAIN load_config) :
         LET ms == IF mods = <<>> THEN [n \in DOMAIN keys |-> Request(keys[n], Latest)]
                   ELSE mods
         IN  /\ cmd' = [name |-> "install", mods |-> ms, optional |-> optional,
                        reinstall |-> reinstall, dry |-> dry, purge |-> FALSE]
             /\ pc' = IF ms = <<>> THEN "done" ELSE "seed"
    /\ i' = 1
    /\ UNCHANGED <<server, disk, placed, collected_mods, queue, conflicts,
                   candidates, result, faults, place, findings, error, apart>>

\* main.py 352-416: the seed loop, one request per step; after the last
\* request the queue starts as a copy of the seeds.
SeedStep ==
    /\ pc = "seed"
    /\ IF SeedError(cmd.mods[i], config, cmd.reinstall) # NoError
       THEN /\ pc' = "crashed"
            /\ error' = SeedError(cmd.mods[i], config, cmd.reinstall)
            /\ UNCHANGED <<collected_mods, queue, i>>
       ELSE LET collected ==
                    collected_mods \o SeedItem(cmd.mods[i], config, server, cmd.reinstall)
            IN  /\ collected_mods' = collected
                /\ IF i = Len(cmd.mods)
                   THEN /\ queue' = collected
                        /\ i' = 1
                        /\ pc' = "expand"
                   ELSE /\ i' = i + 1
                        /\ UNCHANGED <<queue, pc>>
                /\ UNCHANGED error
    /\ UNCHANGED <<server, disk, loaded, config, placed, cmd, conflicts, candidates, result,
                   faults, place, findings, apart>>

\* main.py 417-468: the dependency loop, one seed per step.
ExpandStep ==
    /\ pc = "expand"
    /\ i <= Len(collected_mods)
    /\ LET dependencies == Version[collected_mods[i].version].dependencies
           bad == {n \in DOMAIN dependencies :
                     DepError(dependencies[n], cmd.optional) # NoError}
           passed == IF bad = {} THEN dependencies
                     ELSE SubSeq(dependencies, 1, First(bad) - 1)
       IN  /\ queue' = queue \o DepItems(passed, server, cmd.optional)
           /\ conflicts' = conflicts \cup
                  ConflictsOf(collected_mods[i], passed, config, server, cmd.optional)
           /\ IF bad = {}
              THEN /\ i' = i + 1
                   /\ UNCHANGED <<pc, error>>
              ELSE /\ pc' = "crashed"
                   /\ error' = DepError(dependencies[First(bad)], cmd.optional)
                   /\ UNCHANGED i
    /\ UNCHANGED <<server, disk, loaded, config, placed, cmd, collected_mods,
                   candidates, result, faults, place, findings, apart>>

\* main.py 471-477: what the report prints: a line for every dependency of
\* type incompatible that a version in the queue declares.
Incompatibilities(q) ==
    UNION {{[mod |-> q[k].mod, project_id |-> Version[q[k].version].dependencies[n].project_id] :
              n \in {m \in DOMAIN Version[q[k].version].dependencies :
                       Version[q[k].version].dependencies[m].dependency_type = "incompatible"}} :
           k \in DOMAIN q}

\* main.py 470-489: the incompatibility report (which only prints) and the
\* installation loop.  download_mod raises RuntimeError on a file whose hash
\* does not match, and nothing catches it.
InstallItems ==
    /\ pc = "expand"
    /\ i > Len(collected_mods)
    /\ LET bad == IF cmd.dry THEN {}
                  ELSE {n \in DOMAIN queue : FileName(queue[n].version) \in corrupt}
           passed == IF bad = {} THEN queue ELSE SubSeq(queue, 1, First(bad) - 1)
       IN  /\ placed' = IF cmd.dry THEN placed
                        ELSE placed \cup {FileName(passed[n].version) : n \in DOMAIN passed}
           /\ config' = InstallQueue(passed, config)
           /\ IF bad = {}
              THEN /\ pc' = "persist"
                   /\ UNCHANGED error
              ELSE /\ pc' = "crashed"
                   /\ error' = Raised("RuntimeError", 486)
    /\ findings' = Incompatibilities(queue)
    /\ UNCHANGED <<server, disk, loaded, cmd, i, collected_mods, queue, conflicts,
                   candidates, result, faults, place, apart>>

\* main.py 491-492, 642-643, 715-716: the manifest is written.
Persist ==
    /\ pc = "persist"
    /\ WriteManifest(config)
    /\ pc' = "done"
    /\ UNCHANGED <<server, loaded, config, placed, cmd, i, collected_mods, queue,
                   conflicts, candidates, result, faults, cwd, findings, error, apart>>

-----------------------------------------------------------------------------
(* uninstall *)

\* main.py 658-666: the identifiers of a manifest entry.
IdentifiersOf(mods, key) ==
    {mods[key].project, Title(mods[key].project), Slug(mods[key].project),
     FileName(mods[key].version), key}

\* What a user may type: ids, slugs, titles, file names, and a name nothing has.
Identifiers ==
    ProjectIds \cup Slugs \cup {Title(p) : p \in ProjectIds}
      \cup {FileName(v) : v \in VersionIds} \cup {"ghost"}

\* A variant of StillDependedOn whose scan never finds a dependent.
NothingDependsOn(mods, project_id) == FALSE

\* main.py 688-694: does an entry of the manifest declare a dependency on
\* project_id?  The scan runs over every entry, the one being removed included.
StillDependedOn(mods, project_id) ==
    \E s \in DOMAIN mods :
        \E n \in DOMAIN Version[mods[s].version].dependencies :
            Version[mods[s].version].dependencies[n].project_id = project_id

\* main.py 684-704: the purge loop over the dependencies of the mod being
\* removed.  st is [mods, files, ok]; ok turns FALSE when config["mods"] has no
\* key dependency_info["project_id"] (KeyError).
RECURSIVE PurgeDeps(_, _)
PurgeDeps(deps, st) ==
    IF deps = <<>> \/ ~st.ok THEN st
    ELSE LET dependency_info == Head(deps)
             pid == dependency_info.project_id
         IN  IF dependency_info.dependency_type = "optional"
                  \/ StillDependedOn(st.mods, pid)
             THEN PurgeDeps(Tail(deps), st)
             ELSE IF pid \notin DOMAIN st.mods
                  THEN [st EXCEPT !.ok = FALSE]
                  ELSE PurgeDeps(Tail(deps),
                                 [mods |-> Del(st.mods, pid),
                                  files |-> st.files \ {FileName(st.mods[pid].version)},
                                  ok |-> TRUE])

\* main.py 651-657: uninstall is started; without arguments it returns at once.
UninstallStart(mods, purge) ==
    /\ pc = "idle"
    /\ cmd' = [name |-> "uninstall", mods |-> mods, optional |-> FALSE,
               reinstall |-> FALSE, dry |-> FALSE, purge |-> purge]
    /\ config' = load_config
    /\ loaded' = load_config
    /\ pc' = IF mods = <<>> THEN "done" ELSE "remove"
    /\ i' = 1
    /\ UNCHANGED <<server, disk, placed, collected_mods, queue, conflicts,
                   candidates, result, faults, place, findings, error, apart>>

\* main.py 671-713: one iteration of the loop over the arguments.  The
\* identifier table is the one built from the manifest as loaded; an argument
\* is a plain name, which Path(mod).name leaves as it is.
UninstallStep ==
    /\ pc = "remove"
    /\ LET mod == cmd.mods[i]
           known == \E key \in DOMAIN loaded : mod \in IdentifiersOf(loaded, key)
           key == CHOOSE k \in DOMAIN loaded : mod \in IdentifiersOf(loaded, k)
           purged == IF cmd.purge
                     THEN PurgeDeps(Version[config[key].version].dependencies,
                                    [mods |-> config, files |-> placed, ok |-> TRUE])
                     ELSE [mods |-> config, files |-> placed, ok |-> TRUE]
           after == IF i = Len(cmd.mods) THEN "persist" ELSE "remove"
       IN  IF ~known
           THEN /\ pc' = after
                /\ UNCHANGED <<config, placed>>
           ELSE IF key \notin DOMAIN config \/ ~purged.ok
           THEN /\ pc' = "crashed"
                /\ UNCHANGED <<config, placed>>
           ELSE /\ pc' = after
                /\ config' = Del(purged.mods, key)
                /\ placed' = purged.files \ {FileName(config[key].version)}
    /\ i' = i + 1
    /\ UNCHANGED <<server, disk, loaded, cmd, collected_mods, queue, conflicts,
                   candidates, result, faults, place, findings, error, apart>>

-----------------------------------------------------------------------------
(* ModrinthAPI.get *)

\* lib.py 47-48: the rate limit state of a client that has sent no request.
NoLimit == [remaining |-> 500, reset |-> 0]

\* No call of get is in progress.
NoGet == [pc |-> "none", i |-> 0, calls |-> 0, attempts |-> 0, status |-> 0,
          headers |-> NoLimit, waited |-> 0, streamed |-> FALSE]

\* No command has started.
Idle ==
    /\ cmd = NoCmd
    /\ pc = "idle"
    /\ i = 1
    /\ collected_mods = <<>>
    /\ queue = <<>>
    /\ conflicts = {}
    /\ error = NoError
    /\ torn = FALSE
    /\ findings = {}

\* The command is run from the directory the manifest is in.
AtRoot == cwd = Root /\ stray = <<>>

\* The catalog answers every lookup and serves every file as declared.
NoFaults == failing = {} /\ corrupt = {}

\* No call of get, no download and no update is under way.
NoCall ==
    /\ http = NoGet
    /\ cache = << >>
    /\ copied = << >>
    /\ worker = << >>
    /\ changes = << >>
    /\ new_version = None
    /\ ratelimit = NoLimit
    /\ now = 0

\* lib.py 65: for i in range(5)
Attempts == 5

\* The status codes the catalog answers with.
Statuses == {200, 404, 429, 500}

\* lib.py 74-75: what a response says about the rate limit: the calls that
\* remain and the time of the reset.  Without the headers the client takes 100
\* and 0.
Headers == [remaining : {0, 100}, reset : 0..MaxTime]

\* A variant of wait_seconds that never waits.
no_wait(reset, t) == 0

\* lib.py 55-56: wait_seconds = math.ceil(self.ratelimit_reset - now)
wait_seconds(reset, t) == reset - t

\* lib.py 51: get is called.  i is the index of the loop of line 65, calls the
\* number of invocations of get so far (the first one and those of line 78),
\* attempts the number of requests sent since the first invocation, status and
\* headers the last response received, waited the seconds slept at line 59,
\* streamed whether a file has been requested since.
Called == [pc |-> "gate", i |-> 0, calls |-> 1, attempts |-> 0, status |-> 0,
           headers |-> NoLimit, waited |-> 0, streamed |-> FALSE]

InitGet ==
    /\ server = [type |-> "fabric", version |-> "1.20"]
    /\ disk = << >>
    /\ loaded = << >>
    /\ config = << >>
    /\ placed = {}
    /\ candidates = <<>>
    /\ result = <<>>
    /\ Idle
    /\ NoFaults
    /\ http = Called
    /\ cache = << >>
    /\ copied = << >>
    /\ worker = << >>
    /\ changes = << >>
    /\ new_version = None
    /\ ratelimit = NoLimit
    /\ now = 0
    /\ AtRoot

\* What a call of get leaves alone.
beyond == <<server, disk, loaded, config, placed, cmd, pc, i, collected_mods, queue,
            conflicts, candidates, result, faults, place, findings, torn, cache, copied,
            worker, changes, new_version>>

\* Time passes.
Tick ==
    /\ now < MaxTime
    /\ now' = now + 1
    /\ UNCHANGED <<beyond, http, error, ratelimit>>

\* lib.py 52-63: with no call remaining, get sleeps one second wait_seconds
\* times; range() of a number that is not positive is empty.
Gate ==
    /\ http.pc = "gate"
    /\ LET seconds == IF ratelimit.remaining = 0 /\ wait_seconds(ratelimit.reset, now) > 0
                      THEN wait_seconds(ratelimit.reset, now) ELSE 0
       IN  /\ now' = now + seconds
           /\ http' = [http EXCEPT !.pc = "request", !.waited = @ + seconds]
    /\ UNCHANGED <<beyond, error, ratelimit>>

\* lib.py 66-73: self.http.get raises ConnectError; the loop goes on, and after
\* the last round its else branch raises RuntimeError.
ConnectError ==
    /\ http.pc = "request"
    /\ http' = [http EXCEPT !.i = @ + 1, !.attempts = @ + 1,
                            !.pc = IF http.i + 1 = Attempts THEN "raised" ELSE "request"]
    /\ error' = IF http.i + 1 = Attempts THEN Raised("RuntimeError", 73) ELSE error
    /\ UNCHANGED <<beyond, client>>

\* lib.py 67, 71, 74-82: the catalog answers with a status; the loop is left
\* and the rate limit state is taken from the response.  On 429 get calls
\* itself; another status outside 200..299 is raised by raise_for_status;
\* otherwise the body is returned.
Respond ==
    /\ http.pc = "request"
    /\ \E status \in Statuses, headers \in Headers :
         /\ status = 429 => http.calls < MaxCalls
         /\ ratelimit' = headers
         /\ http' = IF status = 429
                    THEN [http EXCEPT !.attempts = @ + 1, !.status = status,
                                      !.headers = headers,
                                      !.calls = @ + 1, !.i = 0, !.pc = "gate"]
                    ELSE [http EXCEPT !.attempts = @ + 1, !.status = status,
                                      !.headers = headers,
                                      !.pc = IF status \in 200..299 THEN "returned"
                                             ELSE "raised"]
         /\ error' = IF status = 429 \/ status \in 200..299 THEN error
                     ELSE Raised("HTTPStatusError", 81)
    /\ UNCHANGED <<beyond, now>>

\* lib.py 211: download_mod asks for a file with self.http.stream, on the same
\* client and not through get.
Stream ==
    /\ http.pc = "returned"
    /\ ~http.streamed
    /\ http' = [http EXCEPT !.streamed = TRUE]
    /\ UNCHANGED <<beyond, error, client>>

\* The command goes on to its next lookup: get is called again on the same
\* client.
Call ==
    /\ http.pc = "returned"
    /\ http' = Called
    /\ UNCHANGED <<beyond, error, client>>

NextGet ==
    \/ Tick
    \/ Gate
    \/ ConnectError
    \/ Respond
    \/ Stream
    \/ Call

GetSpec == InitGet /\ [][NextGet]_vars

-----------------------------------------------------------------------------
(* ModrinthAPI.download_mod *)

\* update_mod starts one thread per download (main.py 623-626); each runs
\* download_mod.
Workers == {1, 2}

\* The files the threads are given.  The lambda of main.py 624 reads
\* new_version when the thread runs it, so two threads may be given the same
\* version; the cache is keyed by file name alone (lib.py 207).
Jars == {"a1.jar", "b1.jar"}

\* What a file holds: nothing (it does not exist), the bytes the version
\* declares the hash of, or other bytes (a truncated or damaged file).
Bytes == {"none", "intact", "other"}

\* The cache directory before the downloads: each file absent, or present with
\* either content, younger or older than 1209600 seconds.
Cached ==
    {[bytes |-> "none", stale |-> FALSE]}
      \cup [bytes : {"intact", "other"}, stale : BOOLEAN]

InitDownload ==
    /\ server = [type |-> "fabric", version |-> "1.20"]
    /\ disk = << >>
    /\ loaded = << >>
    /\ config = << >>
    /\ placed = {}
    /\ candidates = <<>>
    /\ result = <<>>
    /\ Idle
    /\ NoFaults
    /\ http = NoGet
    /\ cache \in [Jars -> Cached]
    /\ copied = [f \in Jars |-> "none"]
    /\ worker \in [Workers -> [pc : {"check"}, file : Jars, detached : {FALSE},
                               matches : {FALSE}, raised : {"None"}]]
    /\ changes = << >>
    /\ new_version = None
    /\ ratelimit = NoLimit
    /\ now = 0
    /\ AtRoot

\* What download_mod leaves alone.
outside == <<server, disk, loaded, config, placed, cmd, pc, i, collected_mods, queue,
             conflicts, candidates, result, faults, place, findings, error, torn, http, changes,
             new_version, client>>

\* lib.py 208: is the file in the cache and not stale?
Check(w) ==
    /\ worker[w].pc = "check"
    /\ worker' = [worker EXCEPT ![w].pc =
                     IF cache[worker[w].file].bytes = "none" \/ cache[worker[w].file].stale
                     THEN "open" ELSE "hash"]
    /\ UNCHANGED <<cache, copied, outside>>

\* lib.py 211-212: the request is sent and fs_file.open("wb") creates the file
\* or truncates the one that is there.
Open(w) ==
    /\ worker[w].pc = "open"
    /\ cache' = [cache EXCEPT ![worker[w].file] = [bytes |-> "other", stale |-> FALSE]]
    /\ worker' = [worker EXCEPT ![w].pc = "write"]
    /\ UNCHANGED <<copied, outside>>

\* lib.py 221-224: the chunks the server sent are written and the file is
\* closed; the bytes are the declared ones or not.  A file that was unlinked
\* while it was open is written to without getting its name back.
Write(w) ==
    /\ worker[w].pc = "write"
    /\ \E served \in {"intact", "other"} :
         cache' = IF worker[w].detached THEN cache
                  ELSE [cache EXCEPT ![worker[w].file].bytes = served]
    /\ worker' = [worker EXCEPT ![w].pc = "hash"]
    /\ UNCHANGED <<copied, outside>>

\* lib.py 229-232: the file is read and hashed.
Hash(w) ==
    /\ worker[w].pc = "hash"
    /\ worker' = IF cache[worker[w].file].bytes = "none"
                 THEN [worker EXCEPT ![w].pc = "raised", ![w].raised = "FileNotFoundError"]
                 ELSE [worker EXCEPT ![w].pc = "compare",
                                     ![w].matches = (cache[worker[w].file].bytes = "intact")]
    /\ UNCHANGED <<cache, copied, outside>>

\* lib.py 233-243: on a mismatch the file is unlinked and RuntimeError is
\* raised; otherwise shutil.copy reads the file again and writes it to the
\* destination.
Compare(w) ==
    /\ worker[w].pc = "compare"
    /\ LET f == worker[w].file
       IN  IF ~worker[w].matches
           THEN /\ cache' = [cache EXCEPT ![f] = [bytes |-> "none", stale |-> FALSE]]
                /\ worker' = [v \in Workers |->
                                IF v = w
                                THEN [worker[w] EXCEPT !.pc = "raised", !.raised = "RuntimeError"]
                                ELSE IF worker[v].file = f /\ worker[v].pc = "write"
                                     THEN [worker[v] EXCEPT !.detached = TRUE]
                                     ELSE worker[v]]
                /\ UNCHANGED copied
           ELSE IF cache[f].bytes = "none"
                THEN /\ worker' = [worker EXCEPT ![w].pc = "raised",
                                                 ![w].raised = "FileNotFoundError"]
                     /\ UNCHANGED <<cache, copied>>
                ELSE /\ copied' = [copied EXCEPT ![f] = cache[f].bytes]
                     /\ worker' = [worker EXCEPT ![w].pc = "done"]
                     /\ UNCHANGED cache
    /\ UNCHANGED outside

\* lib.py 192-244: one step of a thread that runs download_mod.
download_mod(w) ==
    \/ Check(w)
    \/ Open(w)
    \/ Write(w)
    \/ Hash(w)
    \/ Compare(w)

NextDownload == \E w \in Workers : download_mod(w)

DownloadSpec == InitDownload /\ [][NextDownload]_vars

-----------------------------------------------------------------------------
(* The commands *)

Init ==
    /\ server \in Servers
    /\ disk \in Manifests
    /\ loaded = disk
    /\ config = disk
    /\ placed = FilesOf(disk)
    /\ candidates = <<>>
    /\ result = <<>>
    /\ Idle
    /\ NoFaults
    /\ NoCall
    /\ AtRoot

Install ==
    /\ pc = "idle"
    /\ \E mods \in SeqsUpTo(Requests, MaxRequests), optional, reinstall, dry \in BOOLEAN :
          InstallStart(mods, optional, reinstall, dry)

Uninstall ==
    /\ pc = "idle"
    /\ \E mods \in SeqsUpTo(Identifiers, MaxRequests), purge \in BOOLEAN :
          UninstallStart(mods, purge)

Next ==
    \/ Install
    \/ Uninstall
    \/ UninstallStep
    \/ SeedStep
    \/ ExpandStep
    \/ InstallItems
    \/ Persist

Spec == Init /\ [][Next]_vars

-----------------------------------------------------------------------------
(* update *)

\* Versions published after the manifests were written: update is the command
\* that meets them.  a3 lists no game version at all.
Later ==
    {Ver("a3", "A", 3, "release", {"fabric"}, {}, <<Dep("B", None, "required")>>),
     Ver("b3", "B", 3, "release", {"fabric"}, {"1.19", "1.20"}, <<>>),
     Ver("c3", "C", 3, "alpha", {"fabric"}, {"1.20"}, <<>>)}

Published == {Version[v] : v \in VersionIds} \cup Later

\* The version record with an id.
Record(id) == CHOOSE r \in Published : r.id = id

\* A variant of release_is_newer with the comparison turned around.
release_is_older(r_type, than) ==
    LET mapping == [release |-> 2, beta |-> 1, alpha |-> 0]
    IN  mapping[r_type] <= mapping[than]

\* main.py 31-36
release_is_newer(r_type, than) ==
    LET mapping == [release |-> 2, beta |-> 1, alpha |-> 0]
    IN  mapping[r_type] >= mapping[than]

\* main.py 523-529: the manifest key of a mod named by key or by project id;
\* None when it is not installed.
get_installed_project(mods, mod_slug) ==
    IF \E key \in DOMAIN mods : key = mod_slug \/ mods[key].project = mod_slug
    THEN CHOOSE key \in DOMAIN mods : key = mod_slug \/ mods[key].project = mod_slug
    ELSE None

\* main.py 545-557: the slugs of the installed projects the arguments name;
\* without arguments, all of them.
Projects(mods, args) ==
    IF args = <<>> THEN DOMAIN mods
    ELSE {get_installed_project(mods, args[n]) : n \in DOMAIN args} \ {None}

\* main.py 541-543
GameVersion(srv, game_version) == IF game_version = None THEN srv.version ELSE game_version

\* main.py 575-595: the checks a version of the bulk answer has to pass.
Passes(version, installed_version, game_loader, game_version, pre_releases) ==
    /\ ~(version.date_published <= installed_version.date_published)
    /\ release_is_newer(version.version_type, installed_version.version_type)
    /\ ~( /\ version.version_type # "release"
          /\ pre_releases = FALSE
          /\ installed_version.version_type = "release" )
    /\ ~(game_loader \notin version.loaders)
    /\ ~(version.game_versions # {} /\ game_version \notin version.game_versions)

\* changes[slug] = {...}: a dict keeps the position of a key that is assigned
\* again.
Assign(chs, slug, version_id) ==
    IF \E n \in DOMAIN chs : chs[n].slug = slug
    THEN [n \in DOMAIN chs |->
            IF chs[n].slug = slug THEN [slug |-> slug, new_version |-> version_id]
            ELSE chs[n]]
    ELSE Append(chs, [slug |-> slug, new_version |-> version_id])

\* main.py 563, 572-601: the loop over the bulk answer; changes as the list of
\* its items.
RECURSIVE Changes(_, _, _, _, _)
Changes(all_versions, mods, game_loader, game_version, pre_releases) ==
    IF all_versions = <<>> THEN <<>>
    ELSE LET before == Changes(SubSeq(all_versions, 1, Len(all_versions) - 1), mods,
                               game_loader, game_version, pre_releases)
             version == all_versions[Len(all_versions)]
             slug == get_installed_project(mods, version.project_id)
         IN  IF Passes(version, Record(mods[slug].version), game_loader, game_version,
                       pre_releases)
             THEN Assign(before, slug, version.id)
             ELSE before

\* main.py 565-570: what get_versions_bulk may answer with: versions of the
\* projects asked for, each at most once, in any order.
BulkAnswers(projects) ==
    LET records == {r \in Published : Slug(r.project_id) \in projects}
    IN  {a \in SeqsUpTo(records, MaxCandidates) :
           \A m, n \in DOMAIN a : m # n => a[m] # a[n]}

\* main.py 513-561: update is started; load_config reads the manifest.
UpdateStart(mods, game_version, pre_releases) ==
    /\ pc = "idle"
    /\ cmd' = [name |-> "update", mods |-> mods, game_version |-> game_version,
               pre_releases |-> pre_releases]
    /\ config' = load_config
    /\ loaded' = load_config
    /\ pc' = IF Projects(load_config, mods) = {} THEN "done" ELSE "bulk"
    /\ UNCHANGED <<server, disk, placed, i, collected_mods, queue, conflicts, candidates,
                   result, faults, place, findings, error, apart>>

\* main.py 563-605: the catalog answers the bulk requests and the updates are
\* chosen; without any, update returns.
UpdatePlan ==
    /\ pc = "bulk"
    /\ \E all_versions \in BulkAnswers(Projects(config, cmd.mods)) :
         /\ candidates' = all_versions
         /\ changes' = Changes(all_versions, config, server.type,
                               GameVersion(server, cmd.game_version), cmd.pre_releases)
    /\ pc' = IF changes' = <<>> THEN "done" ELSE "apply"
    /\ UNCHANGED <<server, disk, loaded, config, placed, cmd, i, collected_mods, queue,
                   conflicts, result, faults, place, findings, error, torn, http, cache, copied, worker,
                   new_version, client>>

\* main.py 612-640: one thread per change downloads new_version, then the
\* manifest in memory takes the new versions.  The lambda of line 624 reads
\* new_version when its thread runs it: the version of its own round of the
\* loop or of a later one.
UpdateApply ==
    /\ pc = "apply"
    /\ \E got \in [DOMAIN changes -> DOMAIN changes] :
         /\ \A n \in DOMAIN changes : got[n] >= n
         /\ placed' = placed \cup {FileName(changes[got[n]].new_version) :
                                      n \in DOMAIN changes}
    /\ config' = [s \in DOMAIN config |->
                    IF \E n \in DOMAIN changes : changes[n].slug = s
                    THEN [project |-> config[s].project,
                          version |-> changes[CHOOSE n \in DOMAIN changes :
                                                 changes[n].slug = s].new_version]
                    ELSE config[s]]
    /\ pc' = "persist"
    /\ UNCHANGED <<server, disk, loaded, cmd, i, collected_mods, queue, conflicts,
                   candidates, result, faults, place, findings, error, apart>>

Update ==
    /\ pc = "idle"
    /\ \E mods \in {<<>>, <<"a">>, <<"B">>, <<"a", "ghost">>},
          game_version \in {None} \cup GameVersions, pre_releases \in BOOLEAN :
          UpdateStart(mods, game_version, pre_releases)

NextUpdate ==
    \/ Update
    \/ UpdatePlan
    \/ UpdateApply
    \/ Persist

UpdateSpec == Init /\ [][NextUpdate]_vars

-----------------------------------------------------------------------------
(* update: the download threads *)

\* A thread that has been started and has not yet called its target.
Started == [pc |-> "started", version |-> None]

\* main.py 613-629: one round of the loop over changes: new_version is bound
\* and a thread is started whose target is the lambda of line 624.
StartThread ==
    /\ pc = "apply"
    /\ i <= Len(changes)
    /\ new_version' = changes[i].new_version
    /\ worker' = Append(worker, Started)
    /\ i' = i + 1
    /\ UNCHANGED <<server, disk, loaded, config, placed, cmd, pc, collected_mods, queue,
                   conflicts, candidates, result, faults, place, findings, error, torn,
                   http, cache, copied, changes, client>>

\* main.py 624, lib.py 192-244: a thread calls its target: the lambda reads
\* new_version as it is now and download_mod runs.  The download places the
\* file, or fails (a connection error at line 211 or the RuntimeError of line
\* 238) and ends the thread alone.
RunThread(n) ==
    /\ worker[n].pc = "started"
    /\ \E ok \in BOOLEAN :
         /\ worker' = [worker EXCEPT ![n] = [pc |-> IF ok THEN "done" ELSE "raised",
                                             version |-> new_version]]
         /\ placed' = IF ok THEN placed \cup {FileName(new_version)} ELSE placed
    /\ UNCHANGED <<server, disk, loaded, config, cmd, pc, i, collected_mods, queue,
                   conflicts, candidates, result, faults, place, findings, error, torn,
                   http, cache, copied, changes, new_version, client>>

\* main.py 630-640: every thread is joined, then every change is written to
\* config["mods"].
JoinThreads ==
    /\ pc = "apply"
    /\ i > Len(changes)
    /\ \A n \in DOMAIN worker : worker[n].pc # "started"
    /\ config' = [s \in DOMAIN config |->
                    IF \E n \in DOMAIN changes : changes[n].slug = s
                    THEN [project |-> config[s].project,
                          version |-> changes[CHOOSE n \in DOMAIN changes :
                                                 changes[n].slug = s].new_version]
                    ELSE config[s]]
    /\ pc' = "persist"
    /\ UNCHANGED <<server, disk, loaded, placed, cmd, i, collected_mods, queue, conflicts,
                   candidates, result, faults, place, findings, error, apart>>

\* update run without arguments: every installed mod is looked at.
UpdateAll ==
    /\ pc = "idle"
    /\ \E pre_releases \in BOOLEAN : UpdateStart(<<>>, None, pre_releases)

NextThreads ==
    \/ UpdateAll
    \/ UpdatePlan
    \/ StartThread
    \/ \E n \in DOMAIN worker : RunThread(n)
    \/ JoinThreads
    \/ Persist

ThreadSpec == Init /\ [][NextThreads]_vars

-----------------------------------------------------------------------------
(* get_versions on its own *)

\* What the catalog may answer with: any list of version records.
CandidateVersions ==
    {[date_published |-> t, version_type |-> tier, loaders |-> c[1], game_versions |-> c[2]] :
       t \in 1..MaxDate, tier \in Tiers,
       c \in {<<{"fabric"}, {"1.20"}>>, <<{"forge"}, {"1.20"}>>, <<{"fabric"}, {"1.19"}>>}}

InitSelect ==
    /\ server = [type |-> "fabric", version |-> "1.20"]
    /\ disk = << >>
    /\ loaded = << >>
    /\ config = << >>
    /\ placed = {}
    /\ cmd = NoCmd
    /\ pc = "answer"
    /\ i = 1
    /\ collected_mods = <<>>
    /\ queue = <<>>
    /\ conflicts = {}
    /\ candidates \in SeqsUpTo(CandidateVersions, MaxCandidates)
    /\ result = <<>>
    /\ error = NoError
    /\ torn = FALSE
    /\ findings = {}
    /\ NoFaults
    /\ NoCall
    /\ AtRoot

\* lib.py 98-151: one call of get_versions on the catalog's answer.
GetVersions ==
    /\ pc = "answer"
    /\ \E filters \in {<<"fabric", "1.20">>, <<None, None>>}, release_only \in BOOLEAN :
         /\ cmd' = [name |-> "get_versions", loader |-> filters[1],
                    game_version |-> filters[2], release_only |-> release_only]
         /\ result' = get_versions(candidates, filters[1], filters[2], release_only)
    /\ pc' = "selected"
    /\ UNCHANGED <<server, disk, loaded, config, placed, i, collected_mods, queue,
                   conflicts, candidates, faults, place, findings, error, apart>>

SelectSpec == InitSelect /\ [][GetVersions]_vars

\* install run with one argument naming project A.
InstallA ==
    /\ pc = "idle"
    /\ \E version \in {Latest} \cup VersionsOf("A"), optional, reinstall, dry \in BOOLEAN :
          InstallStart(<<Request("A", version)>>, optional, reinstall, dry)

NextA ==
    \/ InstallA
    \/ SeedStep
    \/ ExpandStep
    \/ InstallItems
    \/ Persist

\* The command is sequential code: once started, it keeps running.
InstallASpec ==
    /\ Init
    /\ [][NextA]_vars
    /\ WF_vars(SeedStep \/ ExpandStep \/ InstallItems \/ Persist)

-----------------------------------------------------------------------------
(* The manifest write, and a process that is killed *)

\* main.py 491, 642, 715: open(".modman.json", "w") truncates the file: the
\* document on disk is gone until json.dump has written the new one.
OpenManifest ==
    /\ pc = "persist"
    /\ WriteManifest(<< >>)
    /\ torn' = TRUE
    /\ pc' = "dump"
    /\ UNCHANGED <<server, loaded, config, placed, cmd, i, collected_mods, queue,
                   conflicts, candidates, result, faults, cwd, findings, error, http, cache, copied,
                   worker, changes, new_version, client>>

\* main.py 492, 643, 716: json.dump writes config and the file is closed.
DumpManifest ==
    /\ pc = "dump"
    /\ WriteManifest(config)
    /\ torn' = FALSE
    /\ pc' = "done"
    /\ UNCHANGED <<server, loaded, config, placed, cmd, i, collected_mods, queue,
                   conflicts, candidates, result, faults, cwd, findings, error, http, cache, copied,
                   worker, changes, new_version, client>>

\* The process is killed while a command runs.
Kill ==
    /\ pc \in {"seed", "expand", "remove", "bulk", "apply", "persist", "dump"}
    /\ pc' = "killed"
    /\ UNCHANGED <<server, disk, loaded, config, placed, cmd, i, collected_mods, queue,
                   conflicts, candidates, result, faults, place, findings, error, apart>>

\* uninstall and update run with one argument naming project A.
UninstallA ==
    /\ pc = "idle"
    /\ \E purge \in BOOLEAN : UninstallStart(<<"a">>, purge)

UpdateA ==
    /\ pc = "idle"
    /\ \E game_version \in {None} \cup GameVersions, pre_releases \in BOOLEAN :
          UpdateStart(<<"a">>, game_version, pre_releases)

NextKill ==
    \/ InstallA
    \/ UninstallA
    \/ UpdateA
    \/ SeedStep
    \/ ExpandStep
    \/ InstallItems
    \/ UninstallStep
    \/ UpdatePlan
    \/ UpdateApply
    \/ OpenManifest
    \/ DumpManifest
    \/ Kill

KillSpec == Init /\ [][NextKill]_vars

-----------------------------------------------------------------------------
(* The commands run from the manifest's directory or from one below it *)

\* load_config goes up from the working directory (main.py 74-80): the
\* manifest is found from its own directory and from every directory below.
InitBelow ==
    /\ server \in Servers
    /\ disk \in Manifests
    /\ loaded = disk
    /\ config = disk
    /\ placed = FilesOf(disk)
    /\ candidates = <<>>
    /\ result = <<>>
    /\ Idle
    /\ NoFaults
    /\ NoCall
    /\ cwd \in {Root, Below}
    /\ stray = <<>>

NextBelow ==
    \/ InstallA
    \/ UninstallA
    \/ UpdateA
    \/ SeedStep
    \/ ExpandStep
    \/ InstallItems
    \/ UninstallStep
    \/ UpdatePlan
    \/ UpdateApply
    \/ Persist

BelowSpec == InitBelow /\ [][NextBelow]_vars

-----------------------------------------------------------------------------
(* install against a catalog that fails, and a user who interrupts *)

\* Besides the requests the catalog can resolve: a name nothing is found for,
\* and a title, which the catalog answers with 404 and the search finds.
RequestsF == Requests \cup {Request("ghost", Latest), Request(Title("C"), Latest)}

FileNames == {FileName(v) : v \in VersionIds}

\* One lookup of the catalog fails, or one file does not match its hash, or
\* nothing is wrong.
InitF ==
    /\ server \in Servers
    /\ disk \in {m \in Manifests : Cardinality(DOMAIN m) <= 1}
    /\ loaded = disk
    /\ config = disk
    /\ placed = FilesOf(disk)
    /\ candidates = <<>>
    /\ result = <<>>
    /\ Idle
    /\ failing \in {{}} \cup {{x} : x \in ProjectIds \cup VersionIds}
    /\ corrupt \in {{}} \cup {{f} : f \in FileNames}
    /\ failing = {} \/ corrupt = {}
    /\ NoCall
    /\ AtRoot

InstallF ==
    /\ pc = "idle"
    /\ \E mods \in SeqsUpTo(RequestsF, MaxRequests) :
          InstallStart(mods, FALSE, FALSE, FALSE)

\* main.py 363-368: the name of the request is not known to the catalog and
\* interactive_search is under way, sending its search or asking the user to
\* choose; the user presses Ctrl-C and the handler raises click.Abort.
Interrupt ==
    /\ pc = "seed"
    /\ ~Known(cmd.mods[i].ref)
    /\ pc' = "crashed"
    /\ error' = Raised("Abort", 368)
    /\ UNCHANGED <<server, disk, loaded, config, placed, cmd, i, collected_mods, queue,
                   conflicts, candidates, result, faults, place, findings, apart>>

NextF ==
    \/ InstallF
    \/ Interrupt
    \/ SeedStep
    \/ ExpandStep
    \/ InstallItems
    \/ Persist

FaultSpec == InitF /\ [][NextF]_vars

-----------------------------------------------------------------------------
(* Properties *)

DepsOf(v) == Version[v].dependencies

Count(q, p) == Cardinality({k \in DOMAIN q : q[k].mod = p})

\* A version that supports the configured loader and game version.
Compatible(v) ==
    server.type \in Version[v].loaders /\ server.version \in Version[v].game_versions

\* install is past its seed loop / has its final queue
AfterSeeds == cmd.name = "install" /\ pc \in {"expand", "persist", "done"}
Expanded == cmd.name = "install" /\ pc \in {"persist", "done"}

\* C1: when the loaded manifest holds a project X whose version pins a
\* dependency on P to v1, and install expands a project Y that requires P pinned
\* to another version v2, the run has recorded the conflict {P, X, v2, v1} and
\* P at v2 is in the queue.
ConflictRecorded ==
    Expanded =>
      \A x \in DOMAIN loaded, k \in DOMAIN collected_mods :
        \A n \in DOMAIN DepsOf(loaded[x].version),
           m \in DOMAIN DepsOf(collected_mods[k].version) :
          LET dx == DepsOf(loaded[x].version)[n]
              dy == DepsOf(collected_mods[k].version)[m]
          IN  ( /\ loaded[x].project # collected_mods[k].mod
                /\ dy.dependency_type = "required"
                /\ dx.project_id = dy.project_id
                /\ dx.version_id # None
                /\ dy.version_id # None
                /\ dx.version_id # dy.version_id )
              => /\ [project_id |-> dy.project_id,
                     conflict_project_id |-> loaded[x].project,
                     version_id |-> dy.version_id,
                     conflict_version_id |-> dx.version_id] \in conflicts
                 /\ Item(dy.project_id, dy.version_id) \in Elems(queue)

\* C2: an `incompatible` dependency is never added to the queue: every item the
\* expansion appended is the target of a `required` or `optional` declaration
\* of a seed.
IncompatibleNeverEnqueued ==
    \A k \in DOMAIN queue :
      k > Len(collected_mods) =>
        \E s \in DOMAIN collected_mods :
          \E n \in DOMAIN DepsOf(collected_mods[s].version) :
            /\ DepsOf(collected_mods[s].version)[n].project_id = queue[k].mod
            /\ DepsOf(collected_mods[s].version)[n].dependency_type # "incompatible"

\* C3: the final queue is closed under `required` dependencies: for every item
\* of the queue, each project it requires that has a version compatible with
\* the platform is in the queue too.
RequiredClosure ==
    Expanded =>
      \A k \in DOMAIN queue :
        \A n \in DOMAIN DepsOf(queue[k].version) :
          LET d == DepsOf(queue[k].version)[n]
          IN  ( /\ d.dependency_type = "required"
                /\ \E v \in VersionsOf(d.project_id) : Compatible(v) )
              => Count(queue, d.project_id) >= 1

\* C4: no project id appears more than once in the queue.
NoProjectTwice ==
    \A p \in ProjectIds : Count(queue, p) <= 1

\* C5: install of A, where the version of A that is seeded requires B and the
\* version of B that is resolved requires A, terminates with A exactly once and
\* B exactly once in the queue.
\* The versions of a project a dependency declaration stands for: the pinned
\* one, or the newest compatible release, or without a compatible release the
\* newest compatible version.
Preferred(v, w) ==
    \/ Version[v].version_type = "release" /\ Version[w].version_type # "release"
    \/ /\ (Version[v].version_type = "release") = (Version[w].version_type = "release")
       /\ Version[v].date_published >= Version[w].date_published

Resolved(d) ==
    IF d.version_id # None THEN {d.version_id}
    ELSE {v \in VersionsOf(d.project_id) :
            /\ Compatible(v)
            /\ \A w \in VersionsOf(d.project_id) : Compatible(w) => Preferred(v, w)}

CycleAB(va) ==
    \E n \in DOMAIN DepsOf(va) :
      /\ DepsOf(va)[n].project_id = "B"
      /\ DepsOf(va)[n].dependency_type = "required"
      /\ Resolved(DepsOf(va)[n]) # {}
      /\ \A vb \in Resolved(DepsOf(va)[n]) :
           \E m \in DOMAIN DepsOf(vb) :
             /\ DepsOf(vb)[m].project_id = "A"
             /\ DepsOf(vb)[m].dependency_type = "required"

InstallOfA ==
    /\ cmd.name = "install"
    /\ Len(cmd.mods) = 1
    /\ Len(collected_mods) = 1
    /\ collected_mods[1].mod = "A"
    /\ CycleAB(collected_mods[1].version)

CycleStart == InstallOfA /\ pc = "expand" /\ i = 1

CycleDone == pc = "done" /\ Count(queue, "A") = 1 /\ Count(queue, "B") = 1

CycleTerminates == CycleStart ~> CycleDone

CycleWitness == InstallOfA /\ CycleDone

\* C6: after uninstall of X with purge, when X requires an installed project Y
\* and no manifest entry other than X declares a dependency on Y, the persisted
\* manifest holds neither X nor Y.
DependsOn(mods, z, pid) ==
    \E n \in DOMAIN DepsOf(mods[z].version) : DepsOf(mods[z].version)[n].project_id = pid

PurgeRemovesOrphan ==
    (pc = "done" /\ cmd.name = "uninstall" /\ cmd.purge /\ Len(cmd.mods) = 1) =>
      \A x, y \in DOMAIN loaded :
        ( /\ cmd.mods[1] \in IdentifiersOf(loaded, x)
          /\ y # x
          /\ \E n \in DOMAIN DepsOf(loaded[x].version) :
               /\ DepsOf(loaded[x].version)[n].project_id = loaded[y].project
               /\ DepsOf(loaded[x].version)[n].dependency_type = "required"
          /\ \A z \in DOMAIN loaded \ {x} : ~DependsOn(loaded, z, loaded[y].project) )
        => (x \notin DOMAIN disk /\ y \notin DOMAIN disk)

\* C7: after uninstall with purge, every installed project that was not named
\* and that a remaining manifest entry depends on is still in the persisted
\* manifest, unchanged.
Named(y) == \E k \in DOMAIN cmd.mods : cmd.mods[k] \in IdentifiersOf(loaded, y)

PurgeKeepsShared ==
    (pc = "done" /\ cmd.name = "uninstall" /\ cmd.purge) =>
      \A y \in DOMAIN loaded :
        ( /\ ~Named(y)
          /\ \E z \in DOMAIN disk : z # y /\ DependsOn(disk, z, loaded[y].project) )
        => (y \in DOMAIN disk /\ disk[y] = loaded[y])

\* X is removed, X required Y, Z still depends on Y, and Y is kept.
PurgeKeepsSharedWitness ==
    /\ pc = "done" /\ cmd.name = "uninstall" /\ cmd.purge /\ Len(cmd.mods) = 1
    /\ \E x, y, z \in DOMAIN loaded :
         /\ x # y /\ y # z /\ x # z
         /\ Named(x) /\ x \notin DOMAIN disk
         /\ \E n \in DOMAIN DepsOf(loaded[x].version) :
              /\ DepsOf(loaded[x].version)[n].project_id = loaded[y].project
              /\ DepsOf(loaded[x].version)[n].dependency_type = "required"
         /\ z \in DOMAIN disk /\ DependsOn(disk, z, loaded[y].project)
         /\ y \in DOMAIN disk

\* C8: get_versions with a loader, a game version and release_only, taking
\* element 0, is the reference selector: of the candidates that support the
\* game version and the loader, the newest release if there is a release, else
\* the newest of any tier; nothing exactly when no candidate passes the filters.
Kept == {n \in DOMAIN candidates :
           /\ cmd.game_version \in candidates[n].game_versions
           /\ cmd.loader \in candidates[n].loaders}

KeptReleases == {n \in Kept : candidates[n].version_type = "release"}

Pool == IF KeptReleases # {} THEN KeptReleases ELSE Kept

SelectCase ==
    /\ pc = "selected"
    /\ cmd.loader # None /\ cmd.game_version # None /\ cmd.release_only

SelectionMatchesReference ==
    SelectCase =>
      /\ (result = <<>>) <=> (Kept = {})
      /\ Kept # {} =>
           \E n \in Pool :
             /\ result[1] = candidates[n]
             /\ \A m \in Pool : candidates[m].date_published <= candidates[n].date_published

\* Only pre-releases pass the filters, and the newest of them is returned.
SelectionFallbackWitness ==
    /\ SelectCase
    /\ Kept # {} /\ KeptReleases = {}
    /\ result # <<>>
    /\ \E m \in Kept : candidates[m].date_published < result[1].date_published
    /\ \E m \in DOMAIN candidates : m \notin Kept /\ candidates[m].version_type = "release"

\* C9: a requested project that is in the manifest is skipped when reinstall is
\* not allowed, except that a request naming a version other than the installed
\* one is not skipped and that version is enqueued.
ExplicitOther(k) ==
    /\ cmd.mods[k].version # Latest
    /\ cmd.mods[k].version # loaded[Slug(get_project(cmd.mods[k].ref))].version

ExplicitVersionSeeded ==
    (AfterSeeds /\ ~cmd.reinstall) =>
      \A k \in DOMAIN cmd.mods :
        LET p == get_project(cmd.mods[k].ref)
        IN  Slug(p) \in DOMAIN loaded =>
              /\ ( ExplicitOther(k)
                   /\ server.type \in Version[cmd.mods[k].version].loaders )
                 => Item(p, cmd.mods[k].version) \in Elems(collected_mods)
              /\ ( \A r \in DOMAIN cmd.mods :
                     get_project(cmd.mods[r].ref) = p => ~ExplicitOther(r) )
                 => Count(collected_mods, p) = 0

\* C10: a seed version that does not support the configured game version, or
\* does not support the configured loader, is still enqueued.
\* The version a request that is not skipped asks for, or Latest.
Asked(k) ==
    IF Slug(get_project(cmd.mods[k].ref)) \in DOMAIN loaded
    THEN loaded[Slug(get_project(cmd.mods[k].ref))].version
    ELSE cmd.mods[k].version

NotSkipped(k) == Slug(get_project(cmd.mods[k].ref)) \in DOMAIN loaded => cmd.reinstall

SeedMismatchOnlyWarns ==
    AfterSeeds =>
      \A k \in DOMAIN cmd.mods :
        (NotSkipped(k) /\ Asked(k) # Latest) =>
          Item(get_project(cmd.mods[k].ref), Asked(k)) \in Elems(collected_mods)

\* C10, as amended: a seed version that does not support the configured game
\* version is still enqueued when it supports the configured loader; a seed
\* version that does not support the configured loader is never enqueued.
SeedMismatchRule ==
    AfterSeeds =>
      /\ \A k \in DOMAIN cmd.mods :
           ( /\ NotSkipped(k) /\ Asked(k) # Latest
             /\ server.type \in Version[Asked(k)].loaders )
           => Item(get_project(cmd.mods[k].ref), Asked(k)) \in Elems(collected_mods)
      /\ \A m \in DOMAIN collected_mods :
           server.type \in Version[collected_mods[m].version].loaders

\* One request asks for a version of another game version and is enqueued,
\* another asks for a version of another loader and is not.
SeedMismatchWitness ==
    /\ AfterSeeds
    /\ \E k \in DOMAIN cmd.mods :
         /\ NotSkipped(k) /\ Asked(k) # Latest
         /\ server.version \notin Version[Asked(k)].game_versions
         /\ Item(get_project(cmd.mods[k].ref), Asked(k)) \in Elems(collected_mods)
    /\ \E k \in DOMAIN cmd.mods :
         /\ NotSkipped(k) /\ Asked(k) # Latest
         /\ server.type \notin Version[Asked(k)].loaders
         /\ Count(collected_mods, get_project(cmd.mods[k].ref)) = 0

\* C11: when the lookup of one requested project or of its requested version
\* fails, the other requests of the run are still resolved, installed and
\* written to the manifest: at the end of a run, whether it finished or a seed
\* lookup ended it, every request that the catalog resolves to a version is in
\* the manifest on disk.
SeedLines == {366, 370, 399}

SeedFailureIsolated ==
    (cmd.name = "install" /\ (pc = "done" \/ (pc = "crashed" /\ error.line \in SeedLines))) =>
      \A k \in DOMAIN cmd.mods :
        ( /\ SeedError(cmd.mods[k], loaded, cmd.reinstall) = NoError
          /\ SeedItem(cmd.mods[k], loaded, server, cmd.reinstall) # <<>> )
        => Slug(Found(cmd.mods[k].ref)) \in DOMAIN disk

\* C12: a dependency whose project or pinned version cannot be obtained from
\* the catalog is dropped and the run goes on: no run is ended by the lookup of
\* a dependency.
DepLines == {437, 459}

DependencyFailureIsolated ==
    cmd.name = "install" => ~(pc = "crashed" /\ error.line \in DepLines)

\* C16: a hash mismatch on one file fails only that item: at the end of a run,
\* whether it finished or a mismatch ended it, every item of the queue whose
\* file matches its hash is placed and is in the manifest on disk.
IntegrityFailureIsolated ==
    ( /\ cmd.name = "install" /\ ~cmd.dry
      /\ (pc = "done" \/ (pc = "crashed" /\ error.line = 486)) ) =>
      \A n \in DOMAIN queue :
        FileName(queue[n].version) \notin corrupt =>
          /\ FileName(queue[n].version) \in placed
          /\ Slug(queue[n].mod) \in DOMAIN disk

\* C13: a request that fails with a connection failure or with a 5xx status is
\* attempted again, the call making up to 5 attempts, and the call raises only
\* when all of them failed; another status outside 2xx, 429 apart, is raised at
\* once.
\* The attempts the invocation of get that raised has made.
Tried == IF error.type = "RuntimeError" THEN http.i ELSE http.i + 1

CatalogRetry ==
    /\ http.i <= Attempts
    /\ ( /\ http.pc = "raised"
         /\ error.type = "RuntimeError" \/ http.status \in 500..599 )
       => Tried = Attempts
    /\ (http.status \in 400..499 /\ http.status # 429) => http.pc = "raised"

\* C14: a 429 answer is not raised as an error, one call of get calls itself at
\* most once because of 429, and so a call sends at most twice 5 requests.
RateLimitSingleRetry ==
    /\ http.pc = "raised" => http.status # 429
    /\ http.calls <= 2
    /\ http.attempts <= 2 * Attempts

\* C15: whether the bytes come from a download or from the cache, a file whose
\* hash differs from the declared one is never copied into the destination
\* directory, and a thread that found a mismatch has raised RuntimeError.
IntegrityGate ==
    /\ \A f \in Jars : copied[f] # "other"
    /\ \A w \in Workers :
         (worker[w].pc \in {"raised", "done"} /\ ~worker[w].matches)
           => worker[w].raised # "None"

\* C17: every entry that install writes to the manifest is compatible with the
\* platform descriptor: an entry of the written manifest that the loaded one
\* did not hold names a version that supports the configured loader and the
\* configured game version.
ManifestCompatible ==
    (cmd.name = "install" /\ pc = "done") =>
      \A s \in DOMAIN disk :
        (s \notin DOMAIN loaded \/ loaded[s] # disk[s]) => Compatible(disk[s].version)

\* C19: update replaces the installed version of a project by a version V only
\* if V was published strictly later, V's tier is not lower (release 2, beta 1,
\* alpha 0), the configured loader is among V's loaders and the target game
\* version is among V's game versions; any other project keeps its entry.
Rank(tier) == CASE tier = "release" -> 2 [] tier = "beta" -> 1 [] OTHER -> 0

\* The game version update works for: the one given on the command line, else
\* the configured one.
Target == IF cmd.game_version = None THEN server.version ELSE cmd.game_version

UpdateDone == cmd.name = "update" /\ pc = "done"

Newer(s) ==
    /\ disk[s].project = loaded[s].project
    /\ Record(disk[s].version).project_id = loaded[s].project
    /\ Record(disk[s].version).date_published > Record(loaded[s].version).date_published
    /\ Rank(Record(disk[s].version).version_type)
         >= Rank(Record(loaded[s].version).version_type)
    /\ server.type \in Record(disk[s].version).loaders

UpdateExpandsDependencies ==
    UpdateDone =>
      \A s \in DOMAIN loaded :
        disk[s] # loaded[s] =>
          \A n \in DOMAIN Record(disk[s].version).dependencies :
            LET d == Record(disk[s].version).dependencies[n]
            IN  ( /\ d.dependency_type = "required"
                  /\ \E r \in Published :
                       /\ r.project_id = d.project_id
                       /\ server.type \in r.loaders
                       /\ server.version \in r.game_versions )
                => Slug(d.project_id) \in DOMAIN disk

\* C18: when the process is killed at any point of an install, update or
\* uninstall run, the manifest on disk is a complete document: the one that
\* was loaded or the new one.
ManifestNeverTorn ==
    pc = "killed" => (~torn /\ (disk = loaded \/ disk = config))

\* C23: the rate limit state is taken from the headers of every response
\* received, and no HTTP request, the file requests of the client included, is
\* sent while the recorded remaining count is 0 and the recorded reset time
\* has not come.
Closed == ratelimit.remaining = 0 /\ now < ratelimit.reset

\* A step in which get sends a request / download_mod asks for a file.
Sent == http'.attempts = http.attempts + 1
Streamed == http'.streamed /\ ~http.streamed

HeadersRecorded == http.status # 0 => ratelimit = http.headers

RateLimitGate ==
    /\ []HeadersRecorded
    /\ [][(Sent \/ Streamed) => ~Closed]_vars

\* C23, as amended: the same for the requests that get sends; the file request
\* of download_mod passes no gate.
RateLimitGateOfGet ==
    /\ []HeadersRecorded
    /\ [][Sent => ~Closed]_vars

\* A 429 answer left no call remaining until a later time; the call that get
\* made of itself slept until then and its request was answered.
RateLimitGateWitness ==
    /\ http.pc = "returned"
    /\ http.calls = 2
    /\ http.waited > 0
    /\ http.status = 200

\* C21: under every interleaving of the loop that starts the threads and the
\* threads, the thread started for a project downloads the version chosen for
\* that project, and no two threads download the same version or write the
\* same file.
ThreadsOwnVersion ==
    /\ \A n \in DOMAIN worker :
         worker[n].version # None => worker[n].version = changes[n].new_version
    /\ \A m, n \in DOMAIN worker :
         (m # n /\ worker[m].version # None /\ worker[n].version # None)
           => FileName(worker[m].version) # FileName(worker[n].version)

\* C22: a user interrupt during the search for one request ends that request
\* alone: at the end of a run that was interrupted, every other request that
\* the catalog resolves to a version is in the manifest on disk.
InterruptIsolated ==
    (cmd.name = "install" /\ pc = "crashed" /\ error.line = 368) =>
      \A k \in DOMAIN cmd.mods \ {i} :
        ( /\ SeedError(cmd.mods[k], loaded, cmd.reinstall) = NoError
          /\ SeedItem(cmd.mods[k], loaded, server, cmd.reinstall) # <<>> )
        => Slug(Found(cmd.mods[k].ref)) \in DOMAIN disk

\* C24: install reports an incompatibility for an item of the queue and one of
\* its declarations of type incompatible exactly when the project named is in
\* the queue or in the manifest as loaded, and the item is installed all the
\* same.
IncompatibilityFindings ==
    Expanded =>
      \A k \in DOMAIN queue :
        \A n \in DOMAIN DepsOf(queue[k].version) :
          LET d == DepsOf(queue[k].version)[n]
          IN  d.dependency_type = "incompatible" =>
                /\ ([mod |-> queue[k].mod, project_id |-> d.project_id] \in findings)
                     <=> ( \/ Count(queue, d.project_id) >= 1
                           \/ Slug(d.project_id) \in DOMAIN loaded )
                /\ pc = "done" => Slug(queue[k].mod) \in DOMAIN disk

\* C25: with --pre-releases, a project whose installed version is a release
\* and that is offered a later alpha or beta version for the loader and the
\* target game version is updated; without the option a project whose
\* installed version is a release is only ever updated to a release.
Offered(s, n) ==
    /\ candidates[n].project_id = loaded[s].project
    /\ candidates[n].date_published > Record(loaded[s].version).date_published
    /\ server.type \in candidates[n].loaders
    /\ Target \in candidates[n].game_versions

PreReleasesOption ==
    UpdateDone =>
      \A s \in DOMAIN loaded :
        Record(loaded[s].version).version_type = "release" =>
          /\ ( /\ cmd.pre_releases
               /\ \E n \in DOMAIN candidates :
                    Offered(s, n) /\ candidates[n].version_type # "release" )
             => disk[s] # loaded[s]
          /\ (~cmd.pre_releases /\ disk[s] # loaded[s])
             => Record(disk[s].version).version_type = "release"

\* C26: install with --dry places no file and leaves the manifest on disk as
\* it was loaded.
DryRunFrame ==
    (cmd.name = "install" /\ cmd.dry) =>
      /\ placed = FilesOf(loaded)
      /\ pc = "done" => disk = loaded

\* C27: when the download thread of a project fails, the project keeps the
\* version it had, so that after update every manifest entry the run changed
\* names a version whose file was placed.
FailedDownloadExcluded ==
    UpdateDone =>
      /\ \A n \in DOMAIN worker :
           worker[n].pc = "raised" => disk[changes[n].slug] = loaded[changes[n].slug]
      /\ \A s \in DOMAIN loaded :
           disk[s] # loaded[s] => FileName(disk[s].version) \in placed

\* C28: from every working directory the manifest is found from, the file the
\* command writes at its end is the file load_config read: when the command
\* is done there is no second manifest and the manifest holds what the
\* command arrived at.
ManifestRoundTrip ==
    pc = "done" => (stray = <<>> /\ disk = config)

\* C29: when several versions of the bulk answer pass the checks of update for
\* one project, the version written to the manifest is the one published
\* last, whatever the order of the answer.
UpdateTakesNewest ==
    UpdateDone =>
      \A s \in DOMAIN loaded :
        disk[s] # loaded[s] =>
          \A n \in DOMAIN candidates :
            ( /\ candidates[n].project_id = loaded[s].project
              /\ Passes(candidates[n], Record(loaded[s].version), server.type, Target,
                        cmd.pre_releases) )
            => candidates[n].date_published <= Record(disk[s].version).date_published

\* C30: uninstall without --purge ends normally for every list of identifiers,
\* and the manifest it writes is the loaded one without the entries named.
UninstallExact ==
    (cmd.name = "uninstall" /\ ~cmd.purge) =>
      /\ pc # "crashed"
      /\ pc = "done" =>
           disk = [s \in {y \in DOMAIN loaded : ~Named(y)} |-> loaded[s]]

====
